---- MODULE Spec2Model ----
(***************************************************************************)
(* Priority scheduler and preemption engine of mule-ai/proxy.              *)
(*                                                                         *)
(* The model follows pkg/proxy: the QueueManager (queue list, shutdown     *)
(* flag), the scheduler loop (StartScheduler / processNextRequest), the    *)
(* per-attempt Request Processor and its Preemption Monitor goroutine      *)
(* (processRequest), and the ingress handler's enqueue (ServeHTTP).        *)
(* Every goroutine is a process whose steps are the points at which the    *)
(* Go code touches shared state: a channel send/receive, a context         *)
(* cancel, a read of ctx.Done(), a write to the ResponseWriter, a          *)
(* close(Done).                                                            *)
(***************************************************************************)
EXTENDS Integers, Sequences, FiniteSets, TLC

\* ---------------------------------------------------------------- bounds

\* number of logical requests that arrive at ingress
NumReqs == 3

\* channel capacities of the model's queues (NewQueueManager allocates 100;
\* the tests build queues of capacity 1 and 10): a queue that fills at once,
\* and one that can hold more than one pending envelope
SmallCap == 1
LargeCap == 2

\* largest RetryCount the model follows a logical request to
MaxRetry == 1

\* ranks ShouldPreempt is asked about range over 0 .. MaxRank
MaxRank == 3

\* number of requests that arrive in the specification that follows the
\* ingress handler through its gates and to its return
GateReqs == 2

\* number of chunks in a request body
BodyLen == 2

\* ---------------------------------------------------------- configuration

\* PriorityQueue without its channel contents; Cap is cap(Requests)
PriorityQueue(port, prio, pre, cap) ==
    [Port |-> port, Priority |-> prio, Preemptive |-> pre, Cap |-> cap]

\* Queue lists a QueueManager is built with, in the order the endpoints are
\* given (any order; ranks are positive and unique, "1 is top"): a
\* preemptive rank 1 over a rank 2 that fills at once, and a non-preemptive
\* rank 1 over a preemptive rank 2.
Configs ==
    { << PriorityQueue(8081, 2, FALSE, SmallCap), PriorityQueue(8080, 1, TRUE, LargeCap) >>,
      << PriorityQueue(8080, 1, FALSE, LargeCap), PriorityQueue(8081, 2, TRUE, LargeCap) >> }

\* A queue list config.LoadConfig and NewQueueManager accept although no
\* queue has rank 1 at the top: ranks are read as they come, nothing
\* checks them. A preemptive rank 0 over a rank 1.
UnvalidatedConfigs ==
    { << PriorityQueue(8081, 1, FALSE, LargeCap), PriorityQueue(8080, 0, TRUE, LargeCap) >> }

\* A queue list in which a preempted attempt's queue can hold its retry
\* next to another envelope: a preemptive rank 1 over a rank 2 of capacity
\* LargeCap.
RequeueConfigs ==
    { << PriorityQueue(8081, 2, FALSE, LargeCap), PriorityQueue(8080, 1, TRUE, LargeCap) >> }

\* ids of the logical requests (one Done channel and ResponseWriter each)
ReqIds == 1 .. NumReqs

\* an attempt is one call of processRequest: the logical request and the
\* RetryCount its envelope carried when it was dispatched
AttKeys == ReqIds \X (0 .. MaxRetry)

\* What the Forwarder returns for a logical request whose attempt is not
\* cancelled, the same at every attempt: a 200 response, a transport error,
\* or a 500 response (the status is passed through as it is).
ForwardResult(id) ==
    IF id % 3 = 1
    THEN [res |-> "ok", status |-> 200,
          headers |-> { << "Content-Type", "application/json" >>,
                        << "X-Request-Id", "req-1" >> },
          body |-> "{\"choices\":[]}", detail |-> ""]
    ELSE IF id % 3 = 2
    THEN [res |-> "err", status |-> 0, headers |-> { }, body |-> "",
          detail |-> "connection refused"]
    ELSE [res |-> "ok", status |-> 500,
          headers |-> { << "Content-Type", "text/plain" >>,
                        << "Access-Control-Allow-Origin", "https://upstream" >> },
          body |-> "upstream failure", detail |-> ""]

VARIABLES
    Queues,        \* qm.Queues: sequence of [Port, Priority, Preemptive, Cap]
    Requests,      \* PriorityQueue.Requests: Port -> FIFO of envelopes
    stopping,      \* qm.stopping
    ctxCancelled,  \* the scheduler's ctx has been cancelled (main: cancel())
    schedPc,       \* scheduler position: "sort", "sorting", "loop", "scan", "stopped"
    scanIdx,       \* processNextRequest: index in Queues being probed
    nextId,        \* next logical request to arrive at ingress
    att,           \* attempts: AttKeys -> attempt record
    writer,        \* ResponseWriter of each logical request: sequence of writes
    doneCloses,    \* number of close(req.Done) executed per logical request
    panicked,      \* the process died of "close of closed channel"
    handler,       \* ServeHTTP of each logical request: "none", "wait", "returned"
    header,        \* ResponseWriter.Header() of each logical request
    telemetry,     \* records passed to metricsCollector.Collect, per logical request
    endpoints,     \* the queue list NewQueueManager was given, in its order
    bodyRead,      \* bytes already read from r.Body of each logical request
    unclosed,      \* attempts holding an upstream response whose Body is not closed
    atShutdown,    \* history: the attempts in flight at main's cancel()
    mainPc,        \* main: "wait" (at <-stop), "shutdown" (cancel() done, in the
                   \* server.Shutdown loop), "exit" (returned: the process is gone)
    owed,          \* history: <<attempt, request>>: the request was enqueued on a
                   \* preemptive queue above the attempt while it was running
    probedEmpty    \* history: ranks the current scan found empty

vars == << Queues, Requests, stopping, ctxCancelled, schedPc, scanIdx, nextId,
           att, writer, doneCloses, panicked, handler, header, telemetry,
           endpoints, bodyRead, unclosed, atShutdown, mainPc, owed, probedEmpty >>

\* ------------------------------------------------------------- helpers

\* the JSON body the client of logical request `id` sends
RequestBody(id) ==
    [model   |-> IF id % 2 = 1 THEN "gpt-4" ELSE "gpt-3.5-turbo",
     content |-> 10 * id + 3,
     tools   |-> IF id % 3 = 0 THEN << "function" >> ELSE << >>]

\* openai.ExtractRequestMetadata: the model name, one token per 4 characters
\* of content, the types of the tools
ExtractRequestMetadata(body) ==
    [Model |-> body.model, InputTokens |-> body.content \div 4, Tools |-> body.tools]

\* the bytes ServeHTTP read from the client (io.ReadAll), chunk by chunk
BodyBytes(id) == [i \in 1 .. BodyLen |-> << id, i >>]

\* time.Now(): the model's clock ticks with every arrival at ingress
Now == nextId

\* workRequest: `id` is the client's HTTP request (Clone keeps it the same
\* logical request), w and done name its ResponseWriter and Done channel
Envelope(id, w, done, startTime, meta, retry, pre) ==
    [id |-> id, ResponseWriter |-> w, Done |-> done, StartTime |-> startTime,
     Model |-> meta.Model, InputTokens |-> meta.InputTokens, Tools |-> meta.Tools,
     RetryCount |-> retry, Preempted |-> pre]

\* the envelope fields of an attempt record that holds no envelope
NoEnvelope ==
    Envelope(0, 0, 0, 0, [Model |-> "", InputTokens |-> 0, Tools |-> << >>], 0, FALSE)

NoAttempt ==
    [ppc |-> "none", mpc |-> "none", ctxDone |-> FALSE, res |-> "none",
     Port |-> 0, Priority |-> 0, Cap |-> 0] @@ NoEnvelope

\* sort.Slice(qm.Queues, less by Priority): insertion of x into a sorted list
RECURSIVE InsertByPriority(_, _)
InsertByPriority(x, s) ==
    IF s = << >> THEN << x >>
    ELSE IF x.Priority < Head(s).Priority THEN << x >> \o s
    ELSE << Head(s) >> \o InsertByPriority(x, Tail(s))

\* mutation of sortByPriority: the list stays in the order it was given
sortByPriorityUnsorted(qs) == qs

\* QueueManager.sortByPriority: the list in ascending Priority
RECURSIVE sortByPriority(_)
sortByPriority(qs) ==
    IF qs = << >> THEN << >>
    ELSE InsertByPriority(Head(qs), sortByPriority(Tail(qs)))

\* for _, q := range qm.Queues { if q.Port == port { return q } }; 0 is nil
RECURSIVE FindFrom(_, _, _)
FindFrom(qs, port, i) ==
    IF i > Len(qs) THEN 0
    ELSE IF qs[i].Port = port THEN i
    ELSE FindFrom(qs, port, i + 1)

FindQueueByPort(port) == FindFrom(Queues, port, 1)

\* for _, q := range qm.Queues { if q.Priority == priority { return q } }
RECURSIVE FindPriorityFrom(_, _, _)
FindPriorityFrom(qs, priority, i) ==
    IF i > Len(qs) THEN 0
    ELSE IF qs[i].Priority = priority THEN i
    ELSE FindPriorityFrom(qs, priority, i + 1)

FindQueue(priority) == FindPriorityFrom(Queues, priority, 1)

\* mutation of the loop of ShouldPreempt: the Preemptive flag is not read
ShouldPreemptFromAnyQueue(qs, reqs, currentPriority, i) ==
    \E j \in i .. Len(qs) :
        qs[j].Priority < currentPriority /\ Len(reqs[qs[j].Port]) > 0

\* the loop of ShouldPreempt over qm.Queues from index i
RECURSIVE ShouldPreemptFrom(_, _, _, _)
ShouldPreemptFrom(qs, reqs, currentPriority, i) ==
    IF i > Len(qs) THEN FALSE
    ELSE IF /\ qs[i].Priority < currentPriority
            /\ qs[i].Preemptive
            /\ Len(reqs[qs[i].Port]) > 0
         THEN TRUE
         ELSE ShouldPreemptFrom(qs, reqs, currentPriority, i + 1)

\* mutation of ShouldPreempt: the rank comparison admits the attempt's own rank
ShouldPreemptLeq(currentPriority) ==
    /\ ~stopping
    /\ \E i \in 1 .. Len(Queues) :
          /\ Queues[i].Priority <= currentPriority
          /\ Queues[i].Preemptive
          /\ Len(Requests[Queues[i].Port]) > 0

\* mutation of ShouldPreempt: the shutdown flag is not read
ShouldPreemptIgnoringStop(currentPriority) ==
    ShouldPreemptFrom(Queues, Requests, currentPriority, 1)

\* QueueManager.ShouldPreempt
ShouldPreempt(currentPriority) ==
    IF stopping THEN FALSE
    ELSE ShouldPreemptFrom(Queues, Requests, currentPriority, 1)

\* mutation of ChanHasRoom: the send is taken whatever the buffer holds
ChanHasRoomAlways(ch, cap) == Len(ch) <= cap

\* `case q.Requests <- req:` is ready iff the buffer has room
ChanHasRoom(ch, cap) == Len(ch) < cap

\* mutation of ChanSend: the new element goes to the front
ChanSendFront(ch, e) == << e >> \o ch

\* mutation of ChanSend: the new element overtakes the last one waiting
ChanSendOvertaking(ch, e) ==
    IF ch = << >> THEN << e >>
    ELSE SubSeq(ch, 1, Len(ch) - 1) \o << e, ch[Len(ch)] >>

\* a channel send appends at the tail
ChanSend(ch, e) == Append(ch, e)

\* mutation of ChanRecv: the newest element is received
ChanRecvLast(ch) == ch[Len(ch)]

\* `case req := <-q.Requests:` receives the oldest element
ChanRecv(ch) == Head(ch)

\* the channel after a receive
ChanRest(ch) == Tail(ch)

\* close(req.Done): closing a closed channel panics
CloseDone(id) ==
    /\ doneCloses' = [doneCloses EXCEPT ![id] = @ + 1]
    /\ panicked' = (doneCloses[id] >= 1)

\* ------------------------------------------------------------------ Init

\* the state NewQueueManager and main leave behind, for a queue list drawn
\* from `configs`
InitFrom(configs) ==
    /\ endpoints \in configs
    /\ Queues = endpoints
    /\ Requests = [p \in { Queues[i].Port : i \in 1 .. Len(Queues) } |-> << >>]
    /\ stopping = FALSE
    /\ ctxCancelled = FALSE
    /\ schedPc = "sort"
    /\ scanIdx = 0
    /\ nextId = 1
    /\ att = [k \in AttKeys |-> NoAttempt]
    /\ writer = [id \in ReqIds |-> << >>]
    /\ doneCloses = [id \in ReqIds |-> 0]
    /\ panicked = FALSE
    /\ handler = [id \in ReqIds |-> "none"]
    /\ header = [id \in ReqIds |-> { }]
    /\ telemetry = [id \in ReqIds |-> << >>]
    /\ bodyRead = [id \in ReqIds |-> 0]
    /\ unclosed = { }
    /\ atShutdown = { }
    /\ mainPc = "wait"
    /\ owed = { }
    /\ probedEmpty = { }

Init == InitFrom(Configs)

\* ------------------------------------------------ main: shutdown signal

\* attempts inside their Forwarder call, not cancelled and with no
\* preemption under way
InFlight ==
    { k \in AttKeys : /\ att[k].ppc = "fwd"
                      /\ ~att[k].ctxDone
                      /\ att[k].mpc = "wait" }

\* main.go: the termination signal arrives and main calls cancel(); it goes
\* on to the loop over the servers
Shutdown ==
    /\ ~panicked
    /\ mainPc # "exit"
    /\ ~ctxCancelled
    /\ ctxCancelled' = TRUE
    /\ atShutdown' = InFlight
    /\ mainPc' = "shutdown"
    /\ UNCHANGED << Queues, Requests, stopping, schedPc, scanIdx, nextId, att,
                    writer, doneCloses, panicked, owed, probedEmpty >>
    /\ UNCHANGED << handler, header, telemetry >>
    /\ UNCHANGED << endpoints, bodyRead, unclosed >>

\* main.go: `for _, server := range servers { server.Shutdown(
\* context.Background()) }`, "Servers gracefully stopped", and main returns.
\* Shutdown with a context that is never done returns once no handler of
\* the server is active, so the loop ends when no ServeHTTP call is waiting.
ServersStopped ==
    /\ ~panicked
    /\ mainPc = "shutdown"
    /\ \A id \in ReqIds : handler[id] # "wait"
    /\ mainPc' = "exit"
    /\ UNCHANGED << Queues, Requests, stopping, ctxCancelled, schedPc, scanIdx,
                    nextId, att, writer, doneCloses, panicked, owed, probedEmpty >>
    /\ UNCHANGED << handler, header, telemetry >>
    /\ UNCHANGED << endpoints, bodyRead, unclosed, atShutdown >>

\* ------------------------------------------------------ ingress handler

\* attempts in their Forwarder call, not cancelled, ranked below `prio`
RunningBelow(prio) ==
    { k \in AttKeys : /\ att[k].ppc = "fwd"
                      /\ ~att[k].ctxDone
                      /\ att[k].Priority > prio }

\* request methods and Host headers that reach ServeHTTP; a Host is the
\* sequence of its pieces
Methods == { "GET", "POST", "PUT", "OPTIONS" }

Hosts ==
    { << "localhost:", "8080" >>, << "127.0.0.1:", "8081" >>,
      << "localhost:", "9090" >>, << "example.com:", "8080" >> }

\* strings.TrimPrefix
TrimPrefix(str, prefix) ==
    IF str # << >> /\ Head(str) = prefix THEN Tail(str) ELSE str

\* the decimal strings of the model and their values
DecimalValue == ("8080" :> 8080) @@ ("8081" :> 8081) @@ ("9090" :> 9090)

\* strconv.Atoi: a value, or an error for anything that is not a decimal string
Atoi(str) ==
    IF Len(str) = 1 /\ str[1] \in DOMAIN DecimalValue
    THEN [err |-> FALSE, value |-> DecimalValue[str[1]]]
    ELSE [err |-> TRUE, value |-> 0]

\* ServeHTTP: the port from r.Host, "localhost:" then "127.0.0.1:" trimmed
ParsePort(host) == Atoi(TrimPrefix(TrimPrefix(host, "localhost:"), "127.0.0.1:"))

\* the CORS headers ServeHTTP sets on every response
CorsHeaders ==
    { << "Access-Control-Allow-Origin", "*" >>,
      << "Access-Control-Allow-Methods", "POST, GET, OPTIONS, PUT, DELETE" >>,
      << "Access-Control-Allow-Headers", "Content-Type, Authorization" >> }

\* the JSON error bodies
MethodNotAllowedJSON == "{\"error\":\"Method not allowed\"}"
InvalidPortJSON == "{\"error\":\"Invalid port\"}"
NoQueueJSON == "{\"error\":\"No queue configured for this port\"}"
OverloadedJSON == "{\"error\":\"Service overloaded, please try again later\"}"
ForwardErrorJSON(detail) == "{\"error\":\"Error forwarding request: " \o detail \o "\"}"

\* ServeHTTP answers by itself: WriteHeader(status), Write(body), return
IngressReply(id, status, body) ==
    /\ writer' = [writer EXCEPT ![id] =
                     Append(@, [site |-> "ingress", status |-> status, body |-> body])]
    /\ handler' = [handler EXCEPT ![id] = "returned"]

\* mutation of MethodGate: only OPTIONS is answered at the gate
MethodGateOpen(method) ==
    IF method = "OPTIONS" THEN [pass |-> FALSE, status |-> 200, body |-> ""]
    ELSE [pass |-> TRUE, status |-> 0, body |-> ""]

\* ServeHTTP, lines 33-44: OPTIONS is answered 200, a method other than
\* POST and GET 405; POST and GET pass
MethodGate(method) ==
    IF method = "OPTIONS" THEN [pass |-> FALSE, status |-> 200, body |-> ""]
    ELSE IF method # "POST" /\ method # "GET"
    THEN [pass |-> FALSE, status |-> 405, body |-> MethodNotAllowedJSON]
    ELSE [pass |-> TRUE, status |-> 0, body |-> ""]

\* mutation of Classify: a port without a queue falls back to the first queue
ClassifyFallback(host) ==
    IF ParsePort(host).err
    THEN [queue |-> 0, status |-> 400, body |-> InvalidPortJSON]
    ELSE IF FindQueueByPort(ParsePort(host).value) = 0
    THEN [queue |-> 1, status |-> 0, body |-> ""]
    ELSE [queue |-> FindQueueByPort(ParsePort(host).value), status |-> 0, body |-> ""]

\* ServeHTTP, lines 46-62: 400 when the port does not parse, 404 when no
\* queue has it, else the index of its queue
Classify(host) ==
    IF ParsePort(host).err
    THEN [queue |-> 0, status |-> 400, body |-> InvalidPortJSON]
    ELSE IF FindQueueByPort(ParsePort(host).value) = 0
    THEN [queue |-> 0, status |-> 404, body |-> NoQueueJSON]
    ELSE [queue |-> FindQueueByPort(ParsePort(host).value), status |-> 0, body |-> ""]

\* ServeHTTP: the CORS headers, the method gate, the classification by
\* port; then the envelope (RetryCount 0, Preempted false) and a
\* non-blocking send: on a full channel 429 and return, else wait on Done
Ingress(method, host) ==
    /\ ~panicked
    /\ mainPc # "exit"
    /\ nextId <= NumReqs
    /\ header' = [header EXCEPT ![nextId] = CorsHeaders]
    /\ IF ~MethodGate(method).pass
       THEN /\ IngressReply(nextId, MethodGate(method).status, MethodGate(method).body)
            /\ UNCHANGED << Requests, owed >>
       ELSE IF Classify(host).queue = 0
       THEN /\ IngressReply(nextId, Classify(host).status, Classify(host).body)
            /\ UNCHANGED << Requests, owed >>
       ELSE LET q == Queues[Classify(host).queue]
                req == Envelope(nextId, nextId, nextId, Now,
                                ExtractRequestMetadata(RequestBody(nextId)), 0, FALSE)
            IN IF ChanHasRoom(Requests[q.Port], q.Cap)
               THEN /\ Requests' = [Requests EXCEPT ![q.Port] = ChanSend(@, req)]
                    /\ writer' = writer
                    /\ handler' = [handler EXCEPT ![nextId] = "wait"]
                    /\ owed' = IF q.Preemptive /\ ~ctxCancelled /\ schedPc # "stopped"
                               THEN owed \cup (RunningBelow(q.Priority) \X { nextId })
                               ELSE owed
               ELSE /\ IngressReply(nextId, 429, OverloadedJSON)
                    /\ UNCHANGED << Requests, owed >>
    /\ nextId' = nextId + 1
    /\ UNCHANGED << Queues, stopping, ctxCancelled, schedPc, scanIdx, att,
                    doneCloses, panicked, telemetry, probedEmpty >>
    /\ UNCHANGED << endpoints, bodyRead, unclosed, atShutdown, mainPc >>

\* ServeHTTP: `<-done` returns once Done is closed, and the handler returns
HandlerReturn(id) ==
    /\ ~panicked
    /\ mainPc # "exit"
    /\ handler[id] = "wait"
    /\ doneCloses[id] > 0
    /\ handler' = [handler EXCEPT ![id] = "returned"]
    /\ UNCHANGED << Queues, Requests, stopping, ctxCancelled, schedPc, scanIdx,
                    nextId, att, writer, doneCloses, panicked, header, telemetry,
                    owed, probedEmpty >>
    /\ UNCHANGED << endpoints, bodyRead, unclosed, atShutdown, mainPc >>

\* ------------------------------------------------------------ scheduler

\* the slot at which sort.Slice's insertion sort makes its first swap: the
\* first i with qs[i+1] ranked before qs[i]
FirstInversion(qs) ==
    CHOOSE i \in 1 .. Len(qs) - 1 :
        /\ qs[i + 1].Priority < qs[i].Priority
        /\ \A j \in 1 .. i - 1 : ~(qs[j + 1].Priority < qs[j].Priority)

\* the swap of slots i and i+1 is two stores, `ps[i], ps[j] = ps[j], ps[i]`:
\* between them both slots hold the same queue, and the compiler chooses
\* which store comes first
HalfSwapped(qs, i) ==
    { [qs EXCEPT ![i] = qs[i + 1]], [qs EXCEPT ![i + 1] = qs[i]] }

\* StartScheduler: qm.sortByPriority() before the loop, called without
\* qm.mu. A list already in order is not written. Otherwise the sort starts
\* swapping in place, in the memory the RLock-protected readers range over.
SchedSort ==
    /\ ~panicked
    /\ mainPc # "exit"
    /\ schedPc = "sort"
    /\ IF sortByPriority(Queues) = Queues
       THEN /\ schedPc' = "loop"
            /\ UNCHANGED Queues
       ELSE /\ schedPc' = "sorting"
            /\ Queues' \in HalfSwapped(Queues, FirstInversion(Queues))
    /\ UNCHANGED << Requests, stopping, ctxCancelled, scanIdx, nextId, att,
                    writer, doneCloses, panicked, owed, probedEmpty >>
    /\ UNCHANGED << handler, header, telemetry >>
    /\ UNCHANGED << endpoints, bodyRead, unclosed, atShutdown, mainPc >>

\* mutation of SchedSorted: the second store of the swap is lost
SchedSortedHalf ==
    /\ ~panicked
    /\ mainPc # "exit"
    /\ schedPc = "sorting"
    /\ Queues' = Queues
    /\ schedPc' = "loop"
    /\ UNCHANGED << Requests, stopping, ctxCancelled, scanIdx, nextId, att,
                    writer, doneCloses, panicked, owed, probedEmpty >>
    /\ UNCHANGED << handler, header, telemetry >>
    /\ UNCHANGED << endpoints, bodyRead, unclosed, atShutdown, mainPc >>

\* sortByPriority returns: the list is the one NewQueueManager built, in
\* ascending Priority (the lists of the model need one swap)
SchedSorted ==
    /\ ~panicked
    /\ mainPc # "exit"
    /\ schedPc = "sorting"
    /\ Queues' = sortByPriority(endpoints)
    /\ schedPc' = "loop"
    /\ UNCHANGED << Requests, stopping, ctxCancelled, scanIdx, nextId, att,
                    writer, doneCloses, panicked, owed, probedEmpty >>
    /\ UNCHANGED << handler, header, telemetry >>
    /\ UNCHANGED << endpoints, bodyRead, unclosed, atShutdown, mainPc >>

\* StartScheduler: `case <-ctx.Done(): qm.stopping = true; return`. The
\* assignment is made without qm.mu and the scheduler returns: nothing
\* orders it with the RLock-protected reads of ShouldPreempt, so a reader
\* may still get the old value afterwards (StoppingVisible).
SchedStop ==
    /\ ~panicked
    /\ mainPc # "exit"
    /\ schedPc = "loop"
    /\ ctxCancelled
    /\ schedPc' = "stopped"
    /\ UNCHANGED << Queues, Requests, stopping, ctxCancelled, scanIdx, nextId, att,
                    writer, doneCloses, panicked, owed, probedEmpty >>
    /\ UNCHANGED << handler, header, telemetry >>
    /\ UNCHANGED << endpoints, bodyRead, unclosed, atShutdown, mainPc >>

\* the scheduler's unsynchronised write of qm.stopping reaches the memory
\* the other goroutines read: from here on every read returns true
StoppingVisible ==
    /\ ~panicked
    /\ mainPc # "exit"
    /\ schedPc = "stopped"
    /\ ~stopping
    /\ stopping' = TRUE
    /\ UNCHANGED << Queues, Requests, ctxCancelled, schedPc, scanIdx, nextId, att,
                    writer, doneCloses, panicked, owed, probedEmpty >>
    /\ UNCHANGED << handler, header, telemetry >>
    /\ UNCHANGED << endpoints, bodyRead, unclosed, atShutdown, mainPc >>

\* StartScheduler: `default:` enters processNextRequest, which starts its
\* range over qm.Queues
SchedBegin ==
    /\ ~panicked
    /\ mainPc # "exit"
    /\ schedPc = "loop"
    /\ ~ctxCancelled
    /\ schedPc' = "scan"
    /\ scanIdx' = 1
    /\ probedEmpty' = { }
    /\ UNCHANGED << Queues, Requests, stopping, ctxCancelled, nextId, att,
                    writer, doneCloses, panicked, owed >>
    /\ UNCHANGED << handler, header, telemetry >>
    /\ UNCHANGED << endpoints, bodyRead, unclosed, atShutdown, mainPc >>

\* the attempt record `go qm.processRequest(req, q)` starts with: a fresh
\* context, the processor about to call the Forwarder, the monitor waiting
NewAttempt(req, q) ==
    [ppc |-> "fwd", mpc |-> "wait", ctxDone |-> FALSE, res |-> "none",
     Port |-> q.Port, Priority |-> q.Priority, Cap |-> q.Cap] @@ req

\* processNextRequest: one non-blocking probe of qm.Queues[scanIdx]; a
\* received envelope is dispatched and the scan ends, an empty queue moves
\* the scan on, the end of the list ends the iteration (then the 10 ms sleep)
SchedProbe ==
    /\ ~panicked
    /\ mainPc # "exit"
    /\ schedPc = "scan"
    /\ IF scanIdx > Len(Queues)
       THEN /\ schedPc' = "loop"
            /\ scanIdx' = 0
            /\ UNCHANGED << Requests, att, probedEmpty >>
       ELSE LET q == Queues[scanIdx]
            IN IF Requests[q.Port] # << >>
               THEN LET req == ChanRecv(Requests[q.Port])
                    IN /\ Requests' = [Requests EXCEPT ![q.Port] = ChanRest(@)]
                       /\ att' = [att EXCEPT ![<< req.id, req.RetryCount >>] =
                                     NewAttempt(req, q)]
                       /\ schedPc' = "loop"
                       /\ scanIdx' = 0
                       /\ UNCHANGED probedEmpty
               ELSE /\ scanIdx' = scanIdx + 1
                    /\ probedEmpty' = probedEmpty \cup { q.Priority }
                    /\ UNCHANGED << schedPc, Requests, att >>
    /\ UNCHANGED << Queues, stopping, ctxCancelled, nextId, writer, doneCloses,
                    panicked, owed >>
    /\ UNCHANGED << handler, header, telemetry >>
    /\ UNCHANGED << endpoints, bodyRead, unclosed, atShutdown, mainPc >>

\* ---------------------------------------------------- request processor

\* both goroutines of an attempt have returned: nothing refers to it any more
Finished ==
    [ppc |-> "exit", mpc |-> "exit", ctxDone |-> FALSE, res |-> "none",
     Port |-> 0, Priority |-> 0, Cap |-> 0] @@ NoEnvelope

\* an attempt record after a step of one of its goroutines
Settle(a) == IF a.ppc = "exit" /\ a.mpc = "exit" THEN Finished ELSE a

\* how far a ForwardRequest call got before it returned: cancelled before
\* any of the body was sent, with part of it sent, with all of it sent and
\* no answer yet, or returned by the upstream (a response or a transport
\* error)
Progress == { "connect", "partial", "sent", "returned" }

\* httpReq.Body is r.Body itself (Request.Clone copies the Body field, not
\* the reader behind it): what the call sends is what is still unread
Unread(id) == SubSeq(BodyBytes(id), bodyRead[id] + 1, BodyLen)

\* the read position of r.Body after a call that got as far as `progress`
ReadUpTo(id, progress) ==
    IF progress = "connect" THEN bodyRead[id]
    ELSE IF progress = "partial" THEN bodyRead[id] + 1
    ELSE BodyLen

\* processRequest: ForwardRequest returns and the processor reads
\* ctx.Done(): cancelled -> return without touching the writer or Done (and
\* without closing the Body of a response the call had returned);
\* otherwise it goes on to write the response. A call that is not cancelled
\* returns what the upstream answered.
ProcForwardReturn(k, progress) ==
    /\ ~panicked
    /\ mainPc # "exit"
    /\ att[k].ppc = "fwd"
    /\ ~att[k].ctxDone => progress = "returned"
    /\ progress = "partial" => bodyRead[att[k].id] + 1 < BodyLen
    /\ IF att[k].ctxDone
       THEN att' = [att EXCEPT ![k] = Settle([att[k] EXCEPT !.ppc = "exit"])]
       ELSE att' = [att EXCEPT ![k].res = ForwardResult(att[k].id).res,
                               ![k].ppc = "write"]
    /\ bodyRead' = [bodyRead EXCEPT ![att[k].id] = ReadUpTo(att[k].id, progress)]
    /\ unclosed' = IF progress = "returned" /\ ForwardResult(att[k].id).res = "ok"
                   THEN unclosed \cup { k }
                   ELSE unclosed
    /\ owed' = IF att[k].ctxDone THEN { o \in owed : o[1] # k } ELSE owed
    /\ UNCHANGED << Queues, Requests, stopping, ctxCancelled, schedPc, scanIdx,
                    nextId, writer, doneCloses, panicked, probedEmpty >>
    /\ UNCHANGED << handler, header, telemetry >>
    /\ UNCHANGED << endpoints, atShutdown, mainPc >>

\* what io.Copy delivers: the whole upstream body, or a truncated one when
\* the attempt's context is cancelled while the body is being streamed
CopiedBodies(body, cancelled) ==
    IF cancelled THEN { body, "" } ELSE { body }

\* the record passed to metricsCollector.Collect for the attempt's envelope
RequestMetrics(req, statusCode) ==
    [Model |-> req.Model, InputTokens |-> req.InputTokens, Tools |-> req.Tools,
     RetryCount |-> req.RetryCount, Priority |-> req.Priority,
     Preempted |-> req.Preempted, StatusCode |-> statusCode]

\* processRequest: the response write. Transport error: 502 and the error
\* JSON. Otherwise the upstream headers are added to the writer's, then the
\* status and the body are written, resp.Body is closed and the metrics
\* record is submitted.
ProcWrite(k) ==
    /\ ~panicked
    /\ mainPc # "exit"
    /\ att[k].ppc = "write"
    /\ LET resp == ForwardResult(att[k].id)
           w == att[k].ResponseWriter
       IN IF att[k].res = "err"
          THEN /\ writer' = [writer EXCEPT ![w] =
                                Append(@, [site |-> "processor", status |-> 502,
                                           body |-> ForwardErrorJSON(resp.detail)])]
               /\ UNCHANGED << header, telemetry >>
          ELSE /\ header' = [header EXCEPT ![w] = @ \cup resp.headers]
               /\ \E b \in CopiedBodies(resp.body, att[k].ctxDone) :
                     writer' = [writer EXCEPT ![w] =
                                   Append(@, [site |-> "processor",
                                              status |-> resp.status, body |-> b])]
               /\ telemetry' = [telemetry EXCEPT ![att[k].id] =
                                   Append(@, RequestMetrics(att[k], resp.status))]
    /\ unclosed' = unclosed \ { k }
    /\ att' = [att EXCEPT ![k].ppc = "close", ![k].res = "none"]
    /\ UNCHANGED << Queues, Requests, stopping, ctxCancelled, schedPc, scanIdx,
                    nextId, doneCloses, panicked, handler, owed, probedEmpty >>
    /\ UNCHANGED << endpoints, bodyRead, atShutdown, mainPc >>

\* processRequest: close(req.Done) after the 502 or after the response
ProcClose(k) ==
    /\ ~panicked
    /\ mainPc # "exit"
    /\ att[k].ppc = "close"
    /\ CloseDone(att[k].Done)
    /\ att' = [att EXCEPT ![k] = Settle([att[k] EXCEPT !.ppc = "exit"])]
    /\ owed' = { o \in owed : o[1] # k }
    /\ UNCHANGED << Queues, Requests, stopping, ctxCancelled, schedPc, scanIdx,
                    nextId, writer, probedEmpty >>
    /\ UNCHANGED << handler, header, telemetry >>
    /\ UNCHANGED << endpoints, bodyRead, unclosed, atShutdown, mainPc >>

\* --------------------------------------------------- preemption monitor

\* monitor: `case <-req.Done: return`
MonDone(k) ==
    /\ ~panicked
    /\ mainPc # "exit"
    /\ att[k].mpc = "wait"
    /\ doneCloses[att[k].Done] > 0
    /\ att' = [att EXCEPT ![k] = Settle([att[k] EXCEPT !.mpc = "exit"])]
    /\ UNCHANGED << Queues, Requests, stopping, ctxCancelled, schedPc, scanIdx,
                    nextId, writer, doneCloses, panicked, owed, probedEmpty >>
    /\ UNCHANGED << handler, header, telemetry >>
    /\ UNCHANGED << endpoints, bodyRead, unclosed, atShutdown, mainPc >>

\* monitor: the 50 ms timer wins the select (Done not closed) and
\* ShouldPreempt(queue.Priority) answers true; a false answer loops
MonTick(k) ==
    /\ ~panicked
    /\ mainPc # "exit"
    /\ att[k].mpc = "wait"
    /\ doneCloses[att[k].Done] = 0
    /\ att[k].RetryCount < MaxRetry
    /\ ShouldPreempt(att[k].Priority)
    /\ att' = [att EXCEPT ![k].mpc = "cancel"]
    /\ UNCHANGED << Queues, Requests, stopping, ctxCancelled, schedPc, scanIdx,
                    nextId, writer, doneCloses, panicked, owed, probedEmpty >>
    /\ UNCHANGED << handler, header, telemetry >>
    /\ UNCHANGED << endpoints, bodyRead, unclosed, atShutdown, mainPc >>

\* the classification metadata an envelope carries
MetaOf(req) ==
    [Model |-> req.Model, InputTokens |-> req.InputTokens, Tools |-> req.Tools]

\* mutation of RetryEnvelope: RetryCount is not incremented
RetryEnvelopeSameCount(req) ==
    Envelope(req.id, req.ResponseWriter, req.Done, req.StartTime, MetaOf(req),
             req.RetryCount, TRUE)

\* mutation of RetryEnvelope: the retry is stamped with the time of the requeue
RetryEnvelopeRestamped(req) ==
    Envelope(req.id, req.ResponseWriter, req.Done, Now, MetaOf(req),
             req.RetryCount + 1, TRUE)

\* the retry envelope: the marks req.Preempted = true and req.RetryCount++,
\* then newReq copies ResponseWriter, Done, StartTime, Model, InputTokens,
\* Tools, RetryCount and Preempted from req
RetryEnvelope(req) ==
    Envelope(req.id, req.ResponseWriter, req.Done, req.StartTime, MetaOf(req),
             req.RetryCount + 1, TRUE)

\* mutation of RequeueQueue: the retry goes to the top queue of the list
RequeueQueueTop(a) == [Port |-> Queues[1].Port, Cap |-> Queues[1].Cap]

\* the queue the monitor requeues on: `queue`, the one processRequest was
\* called with
RequeueQueue(a) == [Port |-> a.Port, Cap |-> a.Cap]

\* monitor: cancel(); `if queue.Priority > 1`: mark the envelope, build
\* newReq and try a non-blocking send to the same queue; a full queue leads
\* to the 503 branch. Rank 1: return without requeue.
MonCancel(k) ==
    /\ ~panicked
    /\ mainPc # "exit"
    /\ att[k].mpc = "cancel"
    /\ IF att[k].Priority > 1
       THEN LET newReq == RetryEnvelope(att[k])
                queue == RequeueQueue(att[k])
                sent == ChanHasRoom(Requests[queue.Port], queue.Cap)
            IN /\ att' = [att EXCEPT ![k] =
                             Settle([att[k] EXCEPT
                                        !.ctxDone = TRUE,
                                        !.Preempted = newReq.Preempted,
                                        !.RetryCount = newReq.RetryCount,
                                        !.mpc = IF sent THEN "exit" ELSE "write503"])]
               /\ Requests' = IF sent
                              THEN [Requests EXCEPT ![queue.Port] = ChanSend(@, newReq)]
                              ELSE Requests
       ELSE /\ att' = [att EXCEPT ![k] =
                          Settle([att[k] EXCEPT !.ctxDone = TRUE, !.mpc = "exit"])]
            /\ UNCHANGED Requests
    /\ UNCHANGED << Queues, stopping, ctxCancelled, schedPc, scanIdx, nextId,
                    writer, doneCloses, panicked, owed, probedEmpty >>
    /\ UNCHANGED << handler, header, telemetry >>
    /\ UNCHANGED << endpoints, bodyRead, unclosed, atShutdown, mainPc >>

\* monitor, queue full: WriteHeader(503) and the overload JSON
MonWrite503(k) ==
    /\ ~panicked
    /\ mainPc # "exit"
    /\ att[k].mpc = "write503"
    /\ writer' = [writer EXCEPT ![att[k].ResponseWriter] =
                     Append(@, [site |-> "monitor", status |-> 503,
                                body |-> OverloadedJSON])]
    /\ att' = [att EXCEPT ![k].mpc = "close"]
    /\ UNCHANGED << Queues, Requests, stopping, ctxCancelled, schedPc, scanIdx,
                    nextId, doneCloses, panicked, owed, probedEmpty >>
    /\ UNCHANGED << handler, header, telemetry >>
    /\ UNCHANGED << endpoints, bodyRead, unclosed, atShutdown, mainPc >>

\* monitor, queue full: close(req.Done)
MonClose(k) ==
    /\ ~panicked
    /\ mainPc # "exit"
    /\ att[k].mpc = "close"
    /\ CloseDone(att[k].Done)
    /\ att' = [att EXCEPT ![k] = Settle([att[k] EXCEPT !.mpc = "exit"])]
    /\ UNCHANGED << Queues, Requests, stopping, ctxCancelled, schedPc, scanIdx,
                    nextId, writer, owed, probedEmpty >>
    /\ UNCHANGED << handler, header, telemetry >>
    /\ UNCHANGED << endpoints, bodyRead, unclosed, atShutdown, mainPc >>

\* ------------------------------------------------------- specification

\* Hosts that ServeHTTP routes to a queue
RoutedHosts == { host \in Hosts : Classify(host).queue # 0 }

\* The scheduler core in service: NumReqs requests, each a GET or POST for
\* a configured port, and no termination signal; a Forwarder call that is
\* cancelled has sent the request and is waiting for the upstream. The
\* handler's wait for Done is not followed here: its return changes
\* `handler` only, which no step of the core reads.
Next ==
    \/ \E method \in { "GET", "POST" }, host \in RoutedHosts : Ingress(method, host)
    \/ SchedSort
    \/ SchedSorted
    \/ SchedBegin
    \/ SchedProbe
    \/ \E k \in AttKeys, progress \in { "sent", "returned" } :
          (att[k].ctxDone <=> progress = "sent") /\ ProcForwardReturn(k, progress)
    \/ \E k \in AttKeys : ProcWrite(k)
    \/ \E k \in AttKeys : ProcClose(k)
    \/ \E k \in AttKeys : MonDone(k)
    \/ \E k \in AttKeys : MonTick(k)
    \/ \E k \in AttKeys : MonCancel(k)
    \/ \E k \in AttKeys : MonWrite503(k)
    \/ \E k \in AttKeys : MonClose(k)

Spec == Init /\ [][Next]_vars

\* The whole life of the process, from the first request to the termination
\* signal: GateReqs requests of every method and Host, the ingress handler
\* from its first line to its return, the scheduler until it stops. With
\* GateReqs requests a requeue always finds room, so the monitor's 503 branch
\* has no step here.
HandlerNext ==
    \/ Shutdown
    \/ ServersStopped
    \/ \E method \in Methods, host \in Hosts :
          nextId <= GateReqs /\ Ingress(method, host)
    \/ \E id \in ReqIds : HandlerReturn(id)
    \/ SchedSort
    \/ SchedSorted
    \/ SchedStop
    \/ StoppingVisible
    \/ SchedBegin
    \/ SchedProbe
    \/ \E k \in AttKeys, progress \in Progress : ProcForwardReturn(k, progress)
    \/ \E k \in AttKeys : ProcWrite(k)
    \/ \E k \in AttKeys : ProcClose(k)
    \/ \E k \in AttKeys : MonDone(k)
    \/ \E k \in AttKeys : MonTick(k)
    \/ \E k \in AttKeys : MonCancel(k)

HandlerSpec == Init /\ [][HandlerNext]_vars

\* the steps of the scheduler goroutine (main.go: `go StartScheduler(ctx)`)
SchedulerStep ==
    SchedSort \/ SchedSorted \/ SchedStop \/ SchedBegin \/ SchedProbe

\* the steps of the goroutine running processRequest for attempt k
ProcessorStep(k) ==
    \/ \E progress \in Progress : ProcForwardReturn(k, progress)
    \/ ProcWrite(k)
    \/ ProcClose(k)

\* the steps of the monitor goroutine of attempt k
MonitorStep(k) == MonDone(k) \/ MonTick(k) \/ MonCancel(k)

\* The whole life of the process with every goroutine scheduled: the
\* scheduler, each processor and each monitor take the step they are at
\* (so every Forwarder call returns and every 50 ms timer fires), each
\* handler returns once it is released, main leaves its shutdown loop once
\* no handler is active, and the scheduler's write of the flag reaches the
\* readers. Requests and the termination signal arrive when they arrive.
LiveSpec ==
    /\ Init
    /\ [][HandlerNext]_vars
    /\ WF_vars(ServersStopped)
    /\ WF_vars(SchedulerStep)
    /\ WF_vars(StoppingVisible)
    /\ \A k \in AttKeys : WF_vars(ProcessorStep(k)) /\ WF_vars(MonitorStep(k))
    /\ \A id \in ReqIds : WF_vars(HandlerReturn(id))

\* The scheduler core in service over a rank-2 queue with room for a retry
\* behind or ahead of another envelope: NumReqs requests as in Next; with
\* that room a requeue never finds the queue full, so the monitor's 503
\* branch has no step here.
RequeueNext ==
    \/ \E method \in { "GET", "POST" }, host \in RoutedHosts : Ingress(method, host)
    \/ SchedSort
    \/ SchedSorted
    \/ SchedBegin
    \/ SchedProbe
    \/ \E k \in AttKeys, progress \in { "sent", "returned" } :
          (att[k].ctxDone <=> progress = "sent") /\ ProcForwardReturn(k, progress)
    \/ \E k \in AttKeys : ProcWrite(k)
    \/ \E k \in AttKeys : ProcClose(k)
    \/ \E k \in AttKeys : MonDone(k)
    \/ \E k \in AttKeys : MonTick(k)
    \/ \E k \in AttKeys : MonCancel(k)

RequeueSpec == InitFrom(RequeueConfigs) /\ [][RequeueNext]_vars

\* The whole life of the process for a queue list whose ranks were not
\* validated
UnvalidatedSpec == InitFrom(UnvalidatedConfigs) /\ [][HandlerNext]_vars

TypeOK ==
    /\ nextId \in 1 .. NumReqs + 1
    /\ mainPc \in { "wait", "shutdown", "exit" }
    /\ \A i \in 1 .. Len(Queues) : Len(Requests[Queues[i].Port]) <= Queues[i].Cap
    /\ \A id \in ReqIds : doneCloses[id] \in 0 .. 2

\* ------------------------------------------------------------- claims

\* the response a run of `id` without preemption puts on the writer
SingleShotResponse(id) ==
    IF ForwardResult(id).res = "err"
    THEN [site |-> "processor", status |-> 502,
          body |-> ForwardErrorJSON(ForwardResult(id).detail)]
    ELSE [site |-> "processor", status |-> ForwardResult(id).status,
          body |-> ForwardResult(id).body]

\* C1: the Done channel of a logical request is never closed a second time,
\* neither by a processor and a monitor nor by two attempts.
C1_DoneClosedAtMostOnce ==
    \A id \in ReqIds : doneCloses[id] <= 1

\* C2: the response writer of a logical request receives a status and body
\* from one site only: one processor attempt or the monitor's 503.
C2_WriterWrittenOnce ==
    \A id \in ReqIds : Len(writer[id]) <= 1

\* C3: once a retry attempt of a preempted request whose requeues all
\* succeeded has written its successful upstream response, the client holds
\* exactly the status and body of a run without preemption, and no error.
C3_PreemptionTransparent ==
    \A k \in AttKeys :
        ( /\ k[2] >= 1
          /\ att[k].ppc = "close"
          /\ ForwardResult(k[1]).res = "ok"
          /\ \A i \in 1 .. Len(writer[k[1]]) : writer[k[1]][i].site # "monitor" )
        => writer[k[1]] = << SingleShotResponse(k[1]) >>

\* some queue ranked above `rank` is preemptive and has a pending envelope
HigherPreemptivePending(rank) ==
    \E i \in 1 .. Len(Queues) :
        /\ Queues[i].Priority < rank
        /\ Queues[i].Preemptive
        /\ Requests[Queues[i].Port] # << >>

\* the step in which the monitor of attempt k invokes cancel()
CancelStep(k) == att[k].mpc = "cancel" /\ att'[k].mpc # "cancel"

\* the step in which the monitor of attempt k gets `true` from ShouldPreempt
AffirmativeCheckStep(k) == att[k].mpc # "cancel" /\ att'[k].mpc = "cancel"

\* the step in which the scheduler receives from qm.Queues[i]
DispatchStep(i) ==
    Len(Requests'[Queues[i].Port]) < Len(Requests[Queues[i].Port])

\* the step in which attempt k starts
StartStep(k) == att[k].ppc = "none" /\ att'[k].ppc = "fwd"

\* C4 (as stated): at the moment a monitor invokes cancel() on an attempt of
\* rank k, some preemptive queue of rank < k holds a pending envelope.
C4_CancelOnlyWhileHigherPending ==
    [][\A k \in AttKeys :
          CancelStep(k) => HigherPreemptivePending(att[k].Priority)]_vars

\* C4 (amended): a monitor invokes cancel() only after its ShouldPreempt
\* check, and that check answers true only in a state, with the shutdown
\* flag still read as false, where some preemptive queue of rank < k holds a
\* pending envelope; pending work of rank >= k or in a non-preemptive queue
\* never leads to a cancel.
C4_CancelOnlyAfterAffirmativeCheck ==
    [][\A k \in AttKeys :
          /\ (att'[k].ctxDone /\ ~att[k].ctxDone) => CancelStep(k)
          /\ CancelStep(k) => att[k].Priority > 0
          /\ AffirmativeCheckStep(k) =>
                /\ att[k].mpc = "wait"
                /\ ~stopping
                /\ HigherPreemptivePending(att[k].Priority)]_vars

\* C4 witness: a rank-2 attempt has been cancelled by its monitor
C4_Witness ==
    \E k \in AttKeys : att[k].Priority = 2 /\ att[k].ctxDone

\* C5: an attempt dispatched from the rank-1 queue never has its monitor on
\* the preemption path and is never cancelled, and the rank-1 queue never
\* holds a retry envelope.
C5_RankOneNeverPreempted ==
    /\ \A k \in AttKeys :
          att[k].Priority = 1 =>
             /\ att[k].mpc \in { "wait", "exit" }
             /\ ~att[k].ctxDone
    /\ \A i \in 1 .. Len(Queues) :
          Queues[i].Priority = 1 =>
             \A j \in 1 .. Len(Requests[Queues[i].Port]) :
                /\ Requests[Queues[i].Port][j].RetryCount = 0
                /\ ~Requests[Queues[i].Port][j].Preempted

\* C5 witness: a rank-1 attempt is running, its monitor is ticking, and both
\* its own preemptive queue and the rank-2 queue hold pending envelopes
C5_Witness ==
    /\ ~stopping
    /\ \E k \in AttKeys :
          /\ att[k].Priority = 1
          /\ att[k].ppc = "fwd"
          /\ att[k].mpc = "wait"
    /\ \A i \in 1 .. Len(Queues) : Requests[Queues[i].Port] # << >>
    /\ \E i \in 1 .. Len(Queues) : Queues[i].Priority = 1 /\ Queues[i].Preemptive

\* C6: ShouldPreempt(r) is true exactly when the manager is not in shutdown
\* and some queue has Priority < r, Preemptive set and a non-empty channel.
C6_ShouldPreemptIff ==
    \A r \in 0 .. MaxRank :
        ShouldPreempt(r) <=> (~stopping /\ HigherPreemptivePending(r))

\* C6 witness: a pending envelope on a preemptive rank 1 makes the answer
\* true for rank 2 and leaves it false for rank 1
C6_Witness ==
    /\ ShouldPreempt(2)
    /\ ~ShouldPreempt(1)
    /\ \E i \in 1 .. Len(Queues) :
          Queues[i].Priority = 2 /\ Requests[Queues[i].Port] # << >>

\* C7: an attempt that was running, uncancelled, when a request was enqueued
\* on a preemptive queue of higher priority (scheduler not shut down) is
\* preempted before it completes: it is never found past its cancellation
\* check, writing its response, with its monitor still waiting and the
\* enqueued request already taken off its queue by the scheduler.
C7_PreemptedBeforeCompletion ==
    ~ctxCancelled =>
        \A o \in owed :
            ~ ( /\ att[o[1]].ppc = "write"
                /\ att[o[1]].mpc = "wait"
                /\ ~att[o[1]].ctxDone
                /\ att[<< o[2], 0 >>].ppc # "none" )

C9_FifoWithinQueue ==
    [][\A k \in AttKeys :
          (StartStep(k) /\ k[2] = 0) =>
             \A j \in 1 .. Len(Requests[att'[k].Port]) :
                Requests[att'[k].Port][j].RetryCount = 0 =>
                   Requests[att'[k].Port][j].id >= k[1]]_vars

\* C9 witness: of two requests enqueued on one queue the earlier has been
\* dispatched and the later is still pending
C9_Witness ==
    \E k \in AttKeys :
        /\ att[k].ppc = "fwd"
        /\ k[2] = 0
        /\ \E j \in 1 .. Len(Requests[att[k].Port]) :
              /\ Requests[att[k].Port][j].RetryCount = 0
              /\ Requests[att[k].Port][j].id > k[1]

\* every envelope, pending or held by a live attempt, is marked preempted
\* exactly when its RetryCount is positive; an attempt's envelope carries the
\* count it was dispatched with, or one more once its monitor has marked it
RetryMarksConsistent ==
    /\ \A p \in DOMAIN Requests :
          \A j \in 1 .. Len(Requests[p]) :
             /\ Requests[p][j].RetryCount >= 0
             /\ Requests[p][j].Preempted <=> (Requests[p][j].RetryCount > 0)
    /\ \A k \in AttKeys :
          att[k].ppc \in { "fwd", "write", "close" } \/ att[k].mpc \in { "wait", "cancel", "write503", "close" } =>
             /\ att[k].Preempted <=> (att[k].RetryCount > 0)
             /\ att[k].RetryCount \in { k[2], k[2] + 1 }
             /\ att[k].RetryCount = k[2] + 1 => att[k].ctxDone

\* an envelope that enters a queue is either the ingress envelope of a new
\* request (RetryCount 0, not preempted) or the retry envelope pushed by the
\* monitor that just cancelled attempt k, with that attempt's count plus one
RetryStep ==
    \A p \in DOMAIN Requests :
        Len(Requests'[p]) > Len(Requests[p]) =>
           LET e == Requests'[p][Len(Requests'[p])]
           IN \/ /\ e.id = nextId
                 /\ nextId' = nextId + 1
                 /\ e.RetryCount = 0
                 /\ ~e.Preempted
              \/ \E k \in AttKeys :
                    /\ CancelStep(k)
                    /\ att[k].Port = p
                    /\ e.id = k[1]
                    /\ att[k].RetryCount = k[2]
                    /\ e.RetryCount = k[2] + 1
                    /\ e.Preempted

\* C10: RetryCount starts at 0, goes up by exactly one with each requeue and
\* never down, and Preempted holds exactly on envelopes with RetryCount > 0.
C10_RetryCountMonotonic ==
    []RetryMarksConsistent /\ [][RetryStep]_vars

\* C10 witness: a retry envelope with RetryCount 1 is pending
C10_Witness ==
    \E p \in DOMAIN Requests :
        \E j \in 1 .. Len(Requests[p]) :
            Requests[p][j].RetryCount = 1 /\ Requests[p][j].Preempted

\* the envelope ingress creates for logical request `id`, which arrived when
\* the clock read `id`
IngressEnvelope(id) ==
    Envelope(id, id, id, id, ExtractRequestMetadata(RequestBody(id)), 0, FALSE)

\* the fields of envelope e that a preemption must leave alone are those of
\* the ingress envelope of its logical request
SameIdentity(e) ==
    /\ e.ResponseWriter = IngressEnvelope(e.id).ResponseWriter
    /\ e.Done = IngressEnvelope(e.id).Done
    /\ e.StartTime = IngressEnvelope(e.id).StartTime
    /\ e.Model = IngressEnvelope(e.id).Model
    /\ e.InputTokens = IngressEnvelope(e.id).InputTokens
    /\ e.Tools = IngressEnvelope(e.id).Tools

\* C11: every envelope, pending in a queue or held by a running attempt,
\* first or retry, has the start_time, model, input_tokens and tools of the
\* envelope created at ingress and the same response writer and Done.
C11_IdentityPreserved ==
    /\ \A p \in DOMAIN Requests :
          \A j \in 1 .. Len(Requests[p]) :
             Requests[p][j].id \in ReqIds /\ SameIdentity(Requests[p][j])
    /\ \A k \in AttKeys :
          att[k].ppc \in { "fwd", "write", "close" } \/ att[k].mpc \in { "wait", "cancel", "write503", "close" } =>
             att[k].id = k[1] /\ SameIdentity(att[k])

\* C11 witness: a retry envelope is pending after a later request arrived
C11_Witness ==
    \E p \in DOMAIN Requests :
        \E j \in 1 .. Len(Requests[p]) :
            /\ Requests[p][j].RetryCount >= 1
            /\ Requests[p][j].StartTime < Now - 1

\* the 503 the monitor writes when the requeue finds the queue full
OverloadResponse == [site |-> "monitor", status |-> 503, body |-> OverloadedJSON]

\* C12: when the requeue of a preempted attempt fails on a full queue, the
\* logical request ends with the 503 overload response on its writer,
\* written before its Done is fired: once the monitor has written the 503
\* and is about to close Done, the writer holds that response and nothing
\* else, and Done has not been fired by anyone else.
C12_RequeueFailureEndsWith503 ==
    \A k \in AttKeys :
        att[k].mpc = "close" =>
           /\ writer[att[k].ResponseWriter] = << OverloadResponse >>
           /\ doneCloses[att[k].Done] = 0

\* a queue whose channel is at capacity
QueueFull(q) == Len(Requests[q.Port]) >= q.Cap

\* the response ServeHTTP itself wrote for the arriving request
IngressAnswered(status, body) ==
    /\ writer'[nextId] = << [site |-> "ingress", status |-> status, body |-> body] >>
    /\ handler'[nextId] = "returned"

\* the step left every queue, every attempt and every other request alone
CoreUntouched ==
    /\ Requests' = Requests
    /\ Queues' = Queues
    /\ att' = att
    /\ doneCloses' = doneCloses
    /\ telemetry' = telemetry
    /\ \A id \in ReqIds \ { nextId } : writer'[id] = writer[id] /\ handler'[id] = handler[id]

\* a request ServeHTTP answered itself has no envelope anywhere, ever
NeverEnqueued(id) ==
    /\ \A k \in AttKeys : att[k].id # id
    /\ \A p \in DOMAIN Requests : \A j \in 1 .. Len(Requests[p]) : Requests[p][j].id # id
    /\ doneCloses[id] = 0

C14_UnroutableRejected ==
    /\ [][\A method \in { "GET", "POST" }, host \in Hosts :
             /\ ( Ingress(method, host) /\ ParsePort(host).err )
                => IngressAnswered(400, InvalidPortJSON) /\ CoreUntouched
             /\ ( /\ Ingress(method, host)
                  /\ ~ParsePort(host).err
                  /\ \A i \in 1 .. Len(Queues) : Queues[i].Port # ParsePort(host).value )
                => IngressAnswered(404, NoQueueJSON) /\ CoreUntouched]_vars
    /\ [](\A id \in ReqIds :
             (writer[id] # << >> /\ writer[id][1].status \in { 400, 404 })
                => NeverEnqueued(id))

\* C14 witness: a request has been answered 404 and another 400
C14_Witness ==
    /\ \E id \in ReqIds :
          writer[id] = << [site |-> "ingress", status |-> 404, body |-> NoQueueJSON] >>
    /\ \E id \in ReqIds :
          writer[id] = << [site |-> "ingress", status |-> 400, body |-> InvalidPortJSON] >>

\* C15: a method other than GET, POST and OPTIONS is answered 405 and
\* OPTIONS 200 with Access-Control-Allow-Origin: *, whatever the Host, and
\* no envelope is enqueued and no queue changed.
C15_MethodGateFirst ==
    /\ [][\A method \in Methods, host \in Hosts :
             /\ ( Ingress(method, host) /\ method \notin { "GET", "POST", "OPTIONS" } )
                => IngressAnswered(405, MethodNotAllowedJSON) /\ CoreUntouched
             /\ ( Ingress(method, host) /\ method = "OPTIONS" )
                => /\ IngressAnswered(200, "")
                   /\ << "Access-Control-Allow-Origin", "*" >> \in header'[nextId]
                   /\ CoreUntouched]_vars
    /\ [](\A id \in ReqIds :
             (writer[id] # << >> /\ writer[id][1].status \in { 200, 405 }
                /\ writer[id][1].site = "ingress")
                => NeverEnqueued(id))

\* C15 witness: a 405 and an OPTIONS 200 have been given
C15_Witness ==
    /\ \E id \in ReqIds :
          writer[id] = << [site |-> "ingress", status |-> 405, body |-> MethodNotAllowedJSON] >>
    /\ \E id \in ReqIds :
          /\ writer[id] = << [site |-> "ingress", status |-> 200, body |-> ""] >>
          /\ << "Access-Control-Allow-Origin", "*" >> \in header[id]

\* C16: the handler of an enqueued request returns only after Done has been
\* closed, and the core never writes to a response writer whose handler has
\* returned.
C16_HandlerOutlivesCore ==
    [][\A id \in ReqIds :
          /\ (handler[id] = "wait" /\ handler'[id] = "returned") => doneCloses[id] > 0
          /\ writer'[id] # writer[id] => handler[id] # "returned"]_vars

\* an envelope of logical request `id` is pending in some queue
Pending(id) ==
    \E p \in DOMAIN Requests : \E j \in 1 .. Len(Requests[p]) : Requests[p][j].id = id

\* the 502 the processor writes for the transport error of request `id`
BadGatewayResponse(id) ==
    [site |-> "processor", status |-> 502,
     body |-> ForwardErrorJSON(ForwardResult(id).detail)]

\* C17: an attempt, not cancelled when its Forwarder returned a transport
\* error, writes 502 with the forwarding-error JSON and fires Done, and the
\* request is terminal: once the 502 is written the writer holds it alone,
\* no envelope of the request is pending, no other attempt of it exists and
\* no telemetry record has been submitted for it.
C17_TransportErrorTerminal ==
    \A k \in AttKeys :
        ( att[k].ppc = "close" /\ ForwardResult(att[k].id).res = "err" ) =>
           /\ writer[att[k].ResponseWriter] = << BadGatewayResponse(att[k].id) >>
           /\ ~Pending(att[k].id)
           /\ \A k2 \in AttKeys \ { k } : att[k2].id # att[k].id
           /\ telemetry[att[k].id] = << >>

\* the response of the upstream for request `id` as the writer should hold it
UpstreamResponse(id) ==
    [site |-> "processor", status |-> ForwardResult(id).status,
     body |-> ForwardResult(id).body]

\* C18: an attempt that is not cancelled and whose Forwarder returned a
\* response (any status) leaves on the writer that status, every upstream
\* header and the whole body, nothing else, and then fires Done: when it is
\* about to close Done the writer holds exactly the upstream response and
\* Done has not been fired.
C18_UpstreamResponsePassedThrough ==
    \A k \in AttKeys :
        ( /\ att[k].ppc = "close"
          /\ ~att[k].ctxDone
          /\ ForwardResult(att[k].id).res = "ok" ) =>
           /\ writer[att[k].ResponseWriter] = << UpstreamResponse(att[k].id) >>
           /\ ForwardResult(att[k].id).headers \subseteq header[att[k].ResponseWriter]
           /\ doneCloses[att[k].Done] = 0

\* a telemetry record that agrees with itself and names the rank of a queue
RecordWellFormed(r) ==
    /\ r.Preempted <=> (r.RetryCount > 0)
    /\ r.RetryCount >= 0
    /\ \E i \in 1 .. Len(Queues) : Queues[i].Priority = r.Priority

\* C19: at most one telemetry record is submitted per logical request, and
\* only for a completion with an upstream response: a request whose client
\* was answered with the 502 or the 503 has none; the record carries the
\* rank of a queue, and preempted = (retry_count > 0).
C19_OneTelemetryRecord ==
    \A id \in ReqIds :
        /\ Len(telemetry[id]) <= 1
        /\ \A i \in 1 .. Len(telemetry[id]) : RecordWellFormed(telemetry[id][i])
        /\ ( writer[id] # << >> /\ writer[id][1].site # "processor" )
              => telemetry[id] = << >>
        /\ ( writer[id] # << >> /\ writer[id][1].status = 502 )
              => telemetry[id] = << >>

PortsAsked == { DecimalValue[d] : d \in DOMAIN DecimalValue }

\* the queues NewQueueManager built
Constructed == { endpoints[i] : i \in 1 .. Len(endpoints) }

\* C21: in every reachable state FindQueueByPort(p) is a queue of the
\* constructed set with Port p when the set has one and nil otherwise, and
\* FindQueue(r) a queue of the constructed set with Priority r when the set
\* has one and nil otherwise.
C21_FindersFollowConstruction ==
    /\ \A p \in PortsAsked :
          IF \E q \in Constructed : q.Port = p
          THEN /\ FindQueueByPort(p) # 0
               /\ Queues[FindQueueByPort(p)] \in Constructed
               /\ Queues[FindQueueByPort(p)].Port = p
          ELSE FindQueueByPort(p) = 0
    /\ \A r \in 0 .. MaxRank :
          IF \E q \in Constructed : q.Priority = r
          THEN /\ FindQueue(r) # 0
               /\ Queues[FindQueue(r)] \in Constructed
               /\ Queues[FindQueue(r)].Priority = r
          ELSE FindQueue(r) = 0

\* the step in which the processor of attempt k writes to the response writer
ProcWriteStep(k) == att[k].ppc = "write" /\ att'[k].ppc = "close"

\* the step in which the processor of attempt k closes Done
ProcCloseStep(k) == att[k].ppc = "close" /\ att'[k].ppc # "close"

\* C22: once cancel() has been invoked on an attempt, its processor makes no
\* write to the response writer and does not close Done.
C22_CancelledProcessorSilent ==
    [][\A k \in AttKeys :
          att[k].ctxDone => ~ProcWriteStep(k) /\ ~ProcCloseStep(k)]_vars

\* C23: every attempt whose Forwarder call runs to its end, first or retry,
\* has passed the complete body that ingress buffered.
C23_RetryForwardsWholeBody ==
    [][\A k \in AttKeys :
          ( ProcForwardReturn(k, "returned") /\ ~att[k].ctxDone )
             => Unread(att[k].id) = BodyBytes(att[k].id)]_vars

\* the rank NewQueueManager gave the queue of port p
RankOfPort(p) == (CHOOSE q \in Constructed : q.Port = p).Priority

\* where logical request `id` is: the <<port, rank>> of every queue that
\* holds an envelope of it and of every queue an attempt of it was
\* dispatched from
Whereabouts(id) ==
    { << p, RankOfPort(p) >> : p \in { p \in DOMAIN Requests : \E j \in 1 .. Len(Requests[p]) :
                                                          Requests[p][j].id = id } }
    \cup { << att[k].Port, att[k].Priority >> : k \in { k \in AttKeys : att[k].id = id } }

\* C24: a logical request is at one port and rank at a time and stays
\* there for as long as it has an envelope or an attempt, and the step of a
\* monitor that cancels changes no queue but the one its attempt was
\* dispatched from.
C24_RetryStaysOnItsQueue ==
    /\ [](\A id \in ReqIds : Cardinality(Whereabouts(id)) <= 1)
    /\ [][\A id \in ReqIds :
             Whereabouts(id) # { } => Whereabouts(id)' \subseteq Whereabouts(id)]_vars
    /\ [][\A k \in AttKeys :
             CancelStep(k) =>
                \A p \in DOMAIN Requests : p # att[k].Port => Requests'[p] = Requests[p]]_vars

\* C24 witness: a retry envelope is pending on the rank-2 queue while the
\* rank-1 queue has room
C24_Witness ==
    \E i, j \in 1 .. Len(Queues) :
        /\ Queues[i].Priority = 2
        /\ Queues[j].Priority = 1
        /\ Len(Requests[Queues[j].Port]) < Queues[j].Cap
        /\ \E n \in 1 .. Len(Requests[Queues[i].Port]) :
              Requests[Queues[i].Port][n].Preempted

\* the places, <<port, position>>, at which an envelope of `id` is pending
PendingAt(id) ==
    { pj \in UNION { { << p, j >> : j \in 1 .. Len(Requests[p]) } : p \in DOMAIN Requests } :
         Requests[pj[1]][pj[2]].id = id }

\* an attempt of `id` is being processed: its processor is running and has
\* not been cancelled
BeingProcessed(id) ==
    \E k \in AttKeys :
        /\ att[k].id = id
        /\ att[k].ppc \in { "fwd", "write", "close" }
        /\ ~att[k].ctxDone

\* C25: a logical request has at most one envelope pending across all
\* queues, none while an attempt of it is being processed and none after
\* its Done has been closed.
C25_OnePendingEnvelope ==
    \A id \in ReqIds :
        /\ Cardinality(PendingAt(id)) <= 1
        /\ BeingProcessed(id) => PendingAt(id) = { }
        /\ doneCloses[id] > 0 => PendingAt(id) = { }

\* the processor goroutine of attempt k has started and not yet returned
ProcessorRunning(k) == att[k].ppc \in { "fwd", "write", "close" }

\* C26: no two attempts of one logical request have their processors
\* running at the same time.
C26_OneAttemptRunnable ==
    \A k1, k2 \in AttKeys :
        ( k1 # k2 /\ ProcessorRunning(k1) /\ ProcessorRunning(k2) )
           => att[k1].id # att[k2].id

\* the step in which the monitor of attempt k closes Done
MonCloseStep(k) == att[k].mpc = "close" /\ att'[k].mpc # "close"

\* some write of `site` is on the writer of logical request `id`
WrittenBy(id, site) == \E i \in 1 .. Len(writer[id]) : writer[id][i].site = site

\* C27: Done is closed only after a complete response has been written: the
\* closing site has made its status and body writes before its close, and
\* once Done is closed the writer is not empty and every response written
\* to it is whole (the upstream's status and body, the 502 or the 503).
C27_DoneAfterCompleteResponse ==
    /\ [][\A k \in AttKeys :
             /\ ProcCloseStep(k) => WrittenBy(att[k].ResponseWriter, "processor")
             /\ MonCloseStep(k) => WrittenBy(att[k].ResponseWriter, "monitor")]_vars
    /\ [](\A id \in ReqIds :
             doneCloses[id] > 0 =>
                /\ writer[id] # << >>
                /\ \A i \in 1 .. Len(writer[id]) :
                      writer[id][i] \in { SingleShotResponse(id), OverloadResponse })

\* C28: every response the Forwarder returned to an attempt has its Body
\* closed, and closed before Done is closed for the logical request: a
\* response whose Body is still open belongs to an attempt whose processor
\* is on its way to resp.Body.Close(), and Done of its request is not closed
\* yet. This includes the attempt cancelled between the Forwarder's return
\* and the processor's ctx.Done() check.
C28_UpstreamBodyClosed ==
    \A k \in unclosed :
        /\ att[k].ppc = "write"
        /\ doneCloses[k[1]] = 0

\* C29: an attempt that was in flight when the scheduler's context was
\* cancelled completes normally: its logical request gets a response
\* written and its Done closed, whatever the interleaving of the shutdown
\* with the checks of the attempt's monitor.
C29_InFlightCompletesAfterShutdown ==
    \A k \in AttKeys :
        (k \in atShutdown) ~> (writer[k[1]] # << >> /\ doneCloses[k[1]] > 0)

\* sort.Slice is between the two stores of a swap of qm.Queues
ListBeingWritten == schedPc = "sorting"

\* the scheduler's store to qm.stopping is issued and not yet ordered with
\* the loads of the other goroutines
FlagBeingWritten == schedPc = "stopped" /\ ~stopping

\* the request passes the method gate and the port parse, so ServeHTTP
\* calls FindQueueByPort
ReachesFindQueueByPort(method, host) ==
    MethodGate(method).pass /\ ~ParsePort(host).err

\* a step in which a goroutine holds qm.mu.RLock and reads the queue list
\* or the flag: FindQueueByPort from ServeHTTP, ShouldPreempt from a monitor
SharedLockStep ==
    \/ \E method \in Methods, host \in Hosts :
          ReachesFindQueueByPort(method, host) /\ Ingress(method, host)
    \/ \E k \in AttKeys : MonTick(k)

\* C30: the writes of the shutdown flag and the reordering of the queue
\* list exclude the readers: no goroutine reads the list or the flag under
\* the shared lock while the list or the flag is being written.
C30_WritesExcludeReaders ==
    [][SharedLockStep => ~ListBeingWritten /\ ~FlagBeingWritten]_vars

\* the step in which the monitor of attempt k writes the 503
MonWriteStep(k) == att[k].mpc = "write503" /\ att'[k].mpc # "write503"

\* C31: the monitor of an attempt stops when Done is closed: with Done of
\* its logical request closed it does not cancel, requeue, write to the
\* response writer or close Done.
C31_MonitorStopsAtDone ==
    [][\A k \in AttKeys :
          (att[k].mpc \notin { "none", "exit" } /\ doneCloses[att[k].Done] > 0)
             => ~CancelStep(k) /\ ~MonWriteStep(k) /\ ~MonCloseStep(k)]_vars

\* C32: after the termination signal main cancels the scheduler's context
\* and shuts every server down, and this sequence ends ("Servers gracefully
\* stopped") whatever was pending or in flight when the signal arrived.
C32_ShutdownTerminates == (mainPc = "shutdown") ~> (mainPc = "exit")

\* the list is in ascending Priority
Ascending(qs) == \A i \in 1 .. Len(qs) - 1 : qs[i].Priority <= qs[i + 1].Priority

\* qs holds the queues of `eps`, each once, in some order
PermutationOf(qs, eps) ==
    /\ Len(qs) = Len(eps)
    /\ \E f \in [1 .. Len(qs) -> 1 .. Len(qs)] :
          /\ \A i, j \in 1 .. Len(qs) : f[i] = f[j] => i = j
          /\ \A i \in 1 .. Len(qs) : qs[i] = eps[f[i]]

\* a step of sortByPriority
SortStep == schedPc \in { "sort", "sorting" } /\ schedPc' # schedPc

\* C33: in whatever order the endpoints were given, once the scheduler is
\* past its sort the queue list is in ascending rank order and holds the
\* queues NewQueueManager built, each once, with the same port, rank and
\* preemptive flag; the steps of the sort change no queue's pending contents.
C33_SortIsPermutation ==
    /\ [](schedPc \in { "loop", "scan", "stopped" } =>
             Ascending(Queues) /\ PermutationOf(Queues, endpoints))
    /\ [][SortStep => Requests' = Requests]_vars

\* C33 witness: endpoints given out of rank order, the scheduler scanning,
\* an envelope pending
C33_Witness ==
    /\ ~Ascending(endpoints)
    /\ schedPc = "scan"
    /\ \E p \in DOMAIN Requests : Requests[p] # << >>

\* a step of processNextRequest: one probe, or the end of the range
ScanStep == schedPc = "scan" /\ (scanIdx' # scanIdx \/ schedPc' # schedPc)

\* the scan step received the head of qm.Queues[i] and started a processor
\* for it with that queue; nothing else pending or running was touched
DispatchedHeadOf(i) ==
    LET q == Queues[i]
        e == Head(Requests[q.Port])
    IN /\ Requests' = [Requests EXCEPT ![q.Port] = Tail(@)]
       /\ att' = [att EXCEPT ![<< e.id, e.RetryCount >>] = NewAttempt(e, q)]
       /\ att[<< e.id, e.RetryCount >>].ppc = "none"
       /\ schedPc' = "loop"

\* C34: a scheduler iteration removes at most one envelope. A probe that
\* finds a head removes that head only, starts a processor for it with the
\* queue it came from and ends the iteration, every queue before it having
\* been probed empty in the same iteration; a probe that finds nothing, and
\* the end of the list, change no queue and no attempt; and a scan step is
\* always possible (the probes do not block).
C34_IterationDispatchesOneHead ==
    /\ [][ScanStep =>
             IF scanIdx <= Len(Queues) /\ Requests[Queues[scanIdx].Port] # << >>
             THEN /\ DispatchedHeadOf(scanIdx)
                  /\ \A j \in 1 .. scanIdx - 1 : Queues[j].Priority \in probedEmpty
             ELSE /\ Requests' = Requests
                  /\ att' = att
                  /\ scanIdx > Len(Queues) => schedPc' = "loop"]_vars
    /\ []((schedPc = "scan" /\ ~panicked /\ mainPc # "exit") => ENABLED SchedProbe)

\* C34 witness: an envelope was dispatched from a queue that holds another
\* one, while the other queue holds one too
C34_Witness ==
    /\ schedPc = "loop"
    /\ \E k \in AttKeys :
          /\ att[k].ppc = "fwd"
          /\ Requests[att[k].Port] # << >>
          /\ \E p \in DOMAIN Requests : p # att[k].Port /\ Requests[p] # << >>

\* the retry envelope of attempt k is on the queue k was dispatched from
RetryPending(k) ==
    \E j \in 1 .. Len(Requests'[att[k].Port]) :
        /\ Requests'[att[k].Port][j].id = att[k].id
        /\ Requests'[att[k].Port][j].RetryCount = att[k].RetryCount + 1

\* nothing is left that could answer logical request `id`: its handler
\* waits, Done is not closed, no envelope of it is pending, and every
\* attempt of it is cancelled with its monitor gone
Orphaned(id) ==
    /\ handler[id] = "wait"
    /\ doneCloses[id] = 0
    /\ ~Pending(id)
    /\ \A k \in AttKeys :
          att[k].id = id =>
             /\ att[k].ctxDone
             /\ att[k].mpc = "exit"
             /\ att[k].ppc \in { "fwd", "exit" }

\* C35: whatever the ranks of the queues, a monitor that invokes cancel()
\* leaves the logical request pending again as a retry envelope or on the
\* way to the 503 and the close of Done, and no logical request is ever left
\* cancelled with no pending envelope and Done not closed.
C35_NoOrphanByPreemption ==
    /\ [][\A k \in AttKeys :
             CancelStep(k) => RetryPending(k) \/ att'[k].mpc = "write503"]_vars
    /\ [](\A id \in ReqIds : ~Orphaned(id))

\* C36: a completed request is never revived: once Done of a logical request
\* is closed no envelope of it is pending, no step enqueues one or starts an
\* attempt of it, and no step writes to its response writer.
C36_CompletedNeverRevived ==
    /\ [](\A id \in ReqIds : doneCloses[id] > 0 => ~Pending(id))
    /\ [][\A id \in ReqIds :
             doneCloses[id] > 0 =>
                /\ Pending(id)' => Pending(id)
                /\ \A k \in AttKeys : k[1] = id => ~StartStep(k)
                /\ writer'[id] = writer[id]]_vars

\* C37: with the scheduler, the processors and the monitors scheduled and
\* every Forwarder call returning, every logical request that ingress
\* enqueued has its Done closed in the end, as long as the scheduler is not
\* told to stop.
C37_EnqueuedEventuallyDone ==
    \A id \in ReqIds :
        (handler[id] = "wait") ~> (doneCloses[id] > 0 \/ ctxCancelled)

\* C38: a preempted request re-enters its queue at the tail. A requeue
\* puts the retry envelope behind every envelope pending in that queue, and
\* from then on a queue changes only by losing its head (a dispatch) or by
\* gaining an envelope at its tail: every envelope that was pending at the
\* requeue is dispatched before the retry, every later one after it.
C38_RetryJoinsAtTail ==
    /\ [][\A k \in AttKeys :
             (CancelStep(k) /\ att'[k].mpc # "write503" /\ att[k].Priority > 1) =>
                /\ SubSeq(Requests'[att[k].Port], 1, Len(Requests[att[k].Port]))
                      = Requests[att[k].Port]
                /\ Len(Requests'[att[k].Port]) = Len(Requests[att[k].Port]) + 1
                /\ Requests'[att[k].Port][Len(Requests'[att[k].Port])].id = att[k].id
                /\ Requests'[att[k].Port][Len(Requests'[att[k].Port])].Preempted]_vars
    /\ [][\A p \in DOMAIN Requests :
             \/ Requests'[p] = Requests[p]
             \/ Requests[p] # << >> /\ Requests'[p] = Tail(Requests[p])
             \/ /\ Len(Requests'[p]) = Len(Requests[p]) + 1
                /\ SubSeq(Requests'[p], 1, Len(Requests[p])) = Requests[p]]_vars

\* C38 witness: a retry envelope is pending behind an envelope that was
\* in the queue before it
C38_Witness ==
    \E p \in DOMAIN Requests :
        /\ Len(Requests[p]) = 2
        /\ ~Requests[p][1].Preempted
        /\ Requests[p][2].Preempted

====
